---- MODULE Spec2Model ----
(***************************************************************************)
(* A model of devolve-ui's render cache and frame scheduler                *)
(* (src/src/renderer/common.ts, class RendererImpl) and of the hook store  *)
(* of a component (src/src/core/hooks/intrinsic/state-dynamic.ts).         *)
(*                                                                         *)
(* JavaScript is single-threaded and a render pass is synchronous, so each *)
(* public method and the interval callback is one action.  Code that the   *)
(* pass calls out to (a node's bounds resolver, a backend draw primitive)  *)
(* may call back into the renderer: that re-entrant call is an input of    *)
(* the pass (the "hook" below), applied at the place of the call-out.      *)
(***************************************************************************)
EXTENDS Integers, Sequences, FiniteSets, TLC

\* ------------------------------------------------------------------ bounds

\* Number of nodes of the largest node tree (nodes are numbered 1..NumNodes).
NumNodes == 5

\* Number of different boxes getRootBoundingBox() may report (widths 1..NumRootBoxes).
NumRootBoxes == 2

\* The dirty marks made since the last pass are counted up to MaxMarks
\* ("MaxMarks or more").
MaxMarks == 2

\* The most hook calls one render of a component makes.
MaxHooks == 2

\* The most renders of a component (the construction pass is the first).
MaxRenders == 3

\* The values a hook is given are 0..MaxValue.
MaxValue == 1

\* Where the handles the hooks return are used: the most hook calls of one
\* render, and the most renders, of the component whose handles are used.
MaxHandleHooks == 1
MaxHandleRenders == 2

\* The most children in a call of intrinsics.box, hbox, vbox or zbox
MaxJsxChildren == 2

\* The most children of a box laid out by renderDivChildren
MaxDivChildren == 3

\* The largest width and height of a child, in pixels
MaxSize == 2

\* The largest gap
MaxGap == 1

\* BrowserRendererImpl.EM, the default of this.em
EM == 24

\* The callers of getAsync
MaxCallers == 2

VARIABLES
  cachedRenders,   \* RendererImpl.cachedRenders: Map<VNode, batch & {parentBounds}>
  needsRerender,   \* RendererImpl.needsRerender
  timer,           \* RendererImpl.timer: TRUE when an interval is set, FALSE when null
  intervals,       \* the intervals made by setInterval and not ended by clearInterval
  rootComponent,   \* RendererImpl.rootComponent: TRUE for the component, FALSE for null
  destroyed,       \* how often VComponent.destroy was called on the root component
  isVisible,       \* RendererImpl.isVisible
  construct,       \* rootComponent.construct: the function that builds the node tree
  rootBox,         \* what the backend's getRootBoundingBox() currently reports
  screen,          \* the backend's visible output (clear / writeRender)
  marks,           \* history: dirty marks made since the last pass started
  ev               \* history: what the last operation did

\* A component (VComponent) and its hook store
VARIABLES
  state,           \* component.state: the hook slots, slot i at position i + 1
  nextStateIndex,  \* component.nextStateIndex
  isBeingCreated,  \* component.isBeingCreated
  phase,           \* "idle", "rendering" (the component function runs) or "failed"
  renders,         \* history: the renders that have ended
  called,          \* history: the hook calls of the current (or last) render
  created,         \* history: the hook calls of the construction pass
  same,            \* history: every render so far made the calls of the construction pass
  current,         \* what getVComponent() returns: "self", "other" or "none"
  hev              \* history: what the last use of a handle did

rvars == <<cachedRenders, needsRerender, timer, intervals, isVisible, rootComponent,
           destroyed, construct, rootBox, screen, marks, ev>>

hvars == <<state, nextStateIndex, isBeingCreated, phase, renders, called, created, same,
           current, hev>>

\* The application object (DevolveUICore) around the renderer
VARIABLES
  props,           \* DevolveUICore.props: the root component's props
  pev              \* history: what the last use of the props proxy did

avars == <<props, pev>>

\* A call of a JSX intrinsic and a call of renderDivChildren
VARIABLES
  jsxIn,           \* the intrinsic called, its props and its children
  vnode,           \* the node the intrinsic returned, NoNode before the call
  console,         \* the number of console.warn calls
  divIn,           \* the arguments of renderDivChildren
  vrender          \* what renderDivChildren returned, NoRender before the call

jvars == <<jsxIn, vnode, console, divIn, vrender>>

\* The asset cacher (CoreAssetCacher) and the callers of getAsync
VARIABLES
  assets,          \* CoreAssetCacher.assets: "absent" (no key), "null" or "image"
  handles,         \* what getAsync returned to each caller, and its use
  loading,         \* the promises construct(path) returned that are not settled
  started,         \* history: how often construct was called for each path
  notified         \* history: the callers whose didFind was called

cvars == <<assets, handles, loading, started, notified>>

vars == <<rvars, hvars, avars, jvars, cvars>>

\* ------------------------------------------------------------- node trees

\* `node.parent` of the root, 'none' in the code (the walk of setNeedsRerender
\* stops there); nodes are numbered from 1.
None == 0

\* What a root construct function builds: a tree of `size` nodes in one of
\* five variants.  Node n's children are nodes 2n and 2n+1 (when they exist).
Variants == {"plain", "vector", "badext", "badtype", "hidden"}

Constructs ==
  { c \in [size : {1, NumNodes}, variant : Variants] :
      c.size = 1 => c.variant \in {"plain", "hidden"} }

Nodes(c) == 1 .. c.size

\* node.parent
Parent(n) == IF n = 1 THEN None ELSE n \div 2

\* node.children (a box's children, in order)
Children(c, n) == SelectSeq(<<2 * n, 2 * n + 1>>, LAMBDA m : m <= c.size)

\* node.type.  In the variant "badtype" one leaf has a type that is none of
\* the four the switch of renderNodeImpl has a case for.
Type(c, n) ==
  IF 2 * n <= c.size THEN "box"
  ELSE CASE n % 3 = 0 -> "color"
         [] n % 3 = 1 -> "text"
         [] OTHER     -> IF c.variant = "badtype" THEN "other" ELSE "source"

\* node.visible (undefined counts as visible: the code tests `=== false`)
Visible(c, n) ==
  ~ (c.variant = "hidden" /\ n = (IF c.size = 1 THEN 1 ELSE 2))

\* node.src of a source node, as its dot-separated parts
Src(c, n) ==
  CASE c.variant = "vector" -> <<"logo", "svg">>
    [] c.variant = "badext" -> <<"notes", "txt">>
    [] OTHER                -> <<"dog", "v2", "png">>

\* node.src.split('.').pop()
Extension(src) == src[Len(src)]

\* node.sublayout ?? {} of a box
Sublayout(c, n) == IF n % 2 = 0 THEN "horizontal" ELSE "overlap"

\* node.bounds(parentBounds): the node's absolute box. Odd nodes take their
\* parent's width (a percentage width), even nodes have a width of their own;
\* every node keeps the default z-position.
NodeBounds(c, n, parentBounds) ==
  [ width |-> IF n % 2 = 1 THEN parentBounds.boundingBox.width ELSE 1,
    z     |-> 0 ]

\* ParentBounds.equals: the absolute box and the sublayout are structurally equal
ParentBoundsEquals(a, b) ==
  a.boundingBox = b.boundingBox /\ a.sublayout = b.sublayout

\* getRootParentBounds()
RootParentBounds ==
  [ boundingBox |-> [width |-> rootBox, z |-> 0], sublayout |-> "none" ]

\* ---------------------------------------------------------------- batches

\* A draw batch (VRenderBatch): a function from z-position to a primitive handle.
EmptyBatch == [z \in {} |-> 0]

Remove(cache, n) == [m \in DOMAIN cache \ {n} |-> cache[m]]

Put(cache, n, entry) ==
  [m \in DOMAIN cache \cup {n} |-> IF m = n THEN entry ELSE cache[m]]

\* The backend's draw primitives: each returns a handle for that primitive at
\* that box.
RenderText(bounds, n)        == [prim |-> "text",   bounds |-> bounds, node |-> n]
RenderSolidColor(bounds, n)  == [prim |-> "color",  bounds |-> bounds, node |-> n]
RenderImage(bounds, n)       == [prim |-> "image",  bounds |-> bounds, node |-> n]
RenderVectorImage(bounds, n) == [prim |-> "vector", bounds |-> bounds, node |-> n]

\* One step of the inner loop of "Merge child renders": the loop variable
\* `render` (the child's primitive) shadows the result record `render`, so
\* `zPosition in render` and `render[zPosition] = render` read and write the
\* child's primitive; the result record is not touched.
MergeEntry(result, zPosition, primitive) == result

RECURSIVE MergeChild(_, _, _)
MergeChild(result, child, zs) ==
  IF zs = {} THEN result
  ELSE LET z == CHOOSE x \in zs : \A y \in zs : x <= y
       IN MergeChild(MergeEntry(result, z, child[z]), child, zs \ {z})

\* "Merge child renders": the loops over the children and over each child's entries.
RECURSIVE MergeChildRenders(_, _)
MergeChildRenders(result, children) ==
  IF children = <<>> THEN result
  ELSE MergeChildRenders(MergeChild(result, Head(children), DOMAIN Head(children)),
                         Tail(children))

\* ------------------------------------------------------------ render pass

\* A call back into the renderer made by code the pass calls out to: while
\* node `at` is being rendered, setNeedsRerender(`mark`) is called.
NoHook == [at |-> 0, mark |-> 0]

Hooks(c) == {NoHook} \cup [at : Nodes(c), mark : Nodes(c)]

\* A bug setNeedsRerender could have: only the node itself is deleted.
EvictPath_OnlyNode(cache, node) ==
  IF node = None THEN cache ELSE Remove(cache, node)

\* The loop of setNeedsRerender: delete the node and each parent up to 'none'.
RECURSIVE EvictPath(_, _)
EvictPath(cache, node) ==
  IF node = None THEN cache
  ELSE EvictPath(Remove(cache, node), Parent(node))

\* setNeedsRerender(diff) on the renderer's fields held in st
SetNeedsRerenderOn(st, diff) ==
  [st EXCEPT !.cache = EvictPath(st.cache, diff), !.dirty = TRUE]

\* A bug the source case could have: a file of an unknown kind is drawn as an image.
RenderSource_BestEffort(st, c, bounds, node) ==
  LET extension == Extension(Src(c, node))
  IN IF extension = "svg"
     THEN [st EXCEPT !.out = (bounds.z :> RenderVectorImage(bounds, node)),
                     !.drawn = @ \cup {node}]
     ELSE [st EXCEPT !.out = (bounds.z :> RenderImage(bounds, node)),
                     !.drawn = @ \cup {node}]

\* case 'source' of renderNodeImpl: the switch on the extension
RenderSource(st, c, bounds, node) ==
  LET extension == Extension(Src(c, node))
  IN CASE extension \in {"png", "jpg", "jpeg", "gif"} ->
            [st EXCEPT !.out = (bounds.z :> RenderImage(bounds, node)),
                       !.drawn = @ \cup {node}]
       [] extension = "svg" ->
            [st EXCEPT !.out = (bounds.z :> RenderVectorImage(bounds, node)),
                       !.drawn = @ \cup {node}]
       [] OTHER -> [st EXCEPT !.threw = TRUE]

RECURSIVE RenderNode(_, _, _, _)
RECURSIVE RenderNodeImpl(_, _, _, _)
RECURSIVE RenderChildren(_, _, _, _, _)

\* A bug renderNode could have: an entry is served whatever its parentBounds.
RenderNode_NoCompare(st, env, parentBounds, node) ==
  LET has   == node \in DOMAIN st.cache
      call  == [node |-> node, parentBounds |-> parentBounds, served |-> has,
                had |-> has,
                old |-> IF has THEN st.cache[node].parentBounds ELSE parentBounds]
      st1   == [st EXCEPT !.calls = @ \cup {call}]
  IN IF has
     THEN [st1 EXCEPT !.out = st.cache[node].batch]
     ELSE LET st3 == RenderNodeImpl(st1, env, parentBounds, node)
          IN IF st3.threw THEN st3
             ELSE IF st3.undef THEN [st3 EXCEPT !.threw = TRUE]
             ELSE [st3 EXCEPT !.cache =
                     Put(@, node, [batch |-> st3.out, parentBounds |-> parentBounds])]

\* A bug renderNode could have: the computed batch is not stored.
RenderNode_NoStore(st, env, parentBounds, node) ==
  LET has   == node \in DOMAIN st.cache
      equal == has /\ ParentBoundsEquals(st.cache[node].parentBounds, parentBounds)
      call  == [node |-> node, parentBounds |-> parentBounds, served |-> equal,
                had |-> has,
                old |-> IF has THEN st.cache[node].parentBounds ELSE parentBounds]
      st1   == [st EXCEPT !.calls = @ \cup {call}]
  IN IF equal
     THEN [st1 EXCEPT !.out = st.cache[node].batch]
     ELSE LET st3 == RenderNodeImpl([st1 EXCEPT !.cache = Remove(@, node)], env,
                                    parentBounds, node)
          IN IF st3.undef THEN [st3 EXCEPT !.threw = TRUE] ELSE st3

\* renderNode(parentBounds, node).  st holds the renderer's fields and what
\* the pass did so far; env holds the tree (c) and the re-entrant call (hook).
RenderNode(st, env, parentBounds, node) ==
  LET has   == node \in DOMAIN st.cache
      equal == has /\ ParentBoundsEquals(st.cache[node].parentBounds, parentBounds)
      call  == [node |-> node, parentBounds |-> parentBounds, served |-> equal,
                had |-> has,
                old |-> IF has THEN st.cache[node].parentBounds ELSE parentBounds]
      st1   == [st EXCEPT !.calls = @ \cup {call}]
  IN IF equal
     THEN [st1 EXCEPT !.out = st.cache[node].batch]
     ELSE LET st2 == [st1 EXCEPT !.cache = Remove(@, node)]
              st3 == RenderNodeImpl(st2, env, parentBounds, node)
          IN IF st3.threw THEN st3
             \* `render.parentBounds = parentBounds` on undefined: a TypeError
             ELSE IF st3.undef THEN [st3 EXCEPT !.threw = TRUE]
             ELSE [st3 EXCEPT !.cache =
                     Put(@, node, [batch |-> st3.out, parentBounds |-> parentBounds])]

\* node.children.map(child => this.renderNode(bounds2, child)): in order, and
\* an error in one child ends the map.
RenderChildren(st, env, bounds2, children, outs) ==
  IF children = <<>> THEN [st |-> st, outs |-> outs]
  ELSE LET st1 == RenderNode(st, env, bounds2, Head(children))
       IN IF st1.threw THEN [st |-> st1, outs |-> outs]
          ELSE RenderChildren(st1, env, bounds2, Tail(children), Append(outs, st1.out))

\* A bug renderNodeImpl could have: node.visible is not looked at.
RenderNodeImpl_IgnoresVisible(st, env, parentBounds, node) ==
  IF FALSE THEN st
  ELSE
    LET \* node.bounds(parentBounds) is code of the application: it may call back
        sta == [st EXCEPT !.resolved = @ \cup {node}]
        st0 == IF env.hook.at = node
               THEN [SetNeedsRerenderOn(sta, env.hook.mark) EXCEPT !.fired = TRUE,
                                                                    !.marked = env.hook.mark]
               ELSE sta
        bounds == NodeBounds(env.c, node, parentBounds)
        type == Type(env.c, node)
    IN CASE type = "box" ->
              LET bounds2 == [boundingBox |-> bounds, sublayout |-> Sublayout(env.c, node)]
                  r == RenderChildren(st0, env, bounds2, Children(env.c, node), <<>>)
              IN IF r.st.threw THEN r.st
                 ELSE [r.st EXCEPT !.out = MergeChildRenders(EmptyBatch, r.outs)]
         [] type = "text" ->
              [st0 EXCEPT !.out = (bounds.z :> RenderText(bounds, node)),
                          !.drawn = @ \cup {node}]
         [] type = "color" ->
              [st0 EXCEPT !.out = (bounds.z :> RenderSolidColor(bounds, node)),
                          !.drawn = @ \cup {node}]
         [] type = "source" -> RenderSource(st0, env.c, bounds, node)
         \* no case of the switch: the function ends without a return
         [] OTHER -> [st0 EXCEPT !.undef = TRUE]

\* renderNodeImpl(parentBounds, node)
RenderNodeImpl(st, env, parentBounds, node) ==
  IF ~ Visible(env.c, node) THEN [st EXCEPT !.out = EmptyBatch]
  ELSE
    LET \* node.bounds(parentBounds) is code of the application: it may call back
        sta == [st EXCEPT !.resolved = @ \cup {node}]
        st0 == IF env.hook.at = node
               THEN [SetNeedsRerenderOn(sta, env.hook.mark) EXCEPT !.fired = TRUE,
                                                                    !.marked = env.hook.mark]
               ELSE sta
        bounds == NodeBounds(env.c, node, parentBounds)
        type == Type(env.c, node)
    IN CASE type = "box" ->
              LET bounds2 == [boundingBox |-> bounds, sublayout |-> Sublayout(env.c, node)]
                  r == RenderChildren(st0, env, bounds2, Children(env.c, node), <<>>)
              IN IF r.st.threw THEN r.st
                 ELSE [r.st EXCEPT !.out = MergeChildRenders(EmptyBatch, r.outs)]
         [] type = "text" ->
              [st0 EXCEPT !.out = (bounds.z :> RenderText(bounds, node)),
                          !.drawn = @ \cup {node}]
         [] type = "color" ->
              [st0 EXCEPT !.out = (bounds.z :> RenderSolidColor(bounds, node)),
                          !.drawn = @ \cup {node}]
         [] type = "source" -> RenderSource(st0, env.c, bounds, node)
         \* no case of the switch: the function ends without a return
         [] OTHER -> [st0 EXCEPT !.undef = TRUE]

\* The fields a pass works on, before the pass.
PassStart ==
  [ cache |-> cachedRenders, dirty |-> needsRerender, screen |-> screen,
    construct |-> construct, passes |-> 0, cleared |-> FALSE, wrote |-> FALSE,
    drawn |-> {}, calls |-> {}, resolved |-> {}, fired |-> FALSE, marked |-> None,
    threw |-> FALSE, undef |-> FALSE, out |-> EmptyBatch ]

\* A bug rerender could have: the dirty flag is not cleared.
RerenderOn_KeepsDirty(st, env) ==
  IF ~ isVisible THEN st
  ELSE LET st1 == [st EXCEPT !.passes = @ + 1, !.screen = EmptyBatch, !.cleared = TRUE]
           st2 == RenderNode(st1, env, RootParentBounds, 1)
       IN IF st2.threw THEN st2
          ELSE [st2 EXCEPT !.screen = st2.out, !.wrote = TRUE]

\* A bug rerender could have: the dirty flag is cleared after the pass.
RerenderOn_ClearsLast(st, env) ==
  IF ~ isVisible THEN st
  ELSE LET st1 == [st EXCEPT !.passes = @ + 1, !.screen = EmptyBatch, !.cleared = TRUE]
           st2 == RenderNode(st1, env, RootParentBounds, 1)
       IN IF st2.threw THEN st2
          ELSE [st2 EXCEPT !.screen = st2.out, !.wrote = TRUE, !.dirty = FALSE]

\* A bug rerender could have: it renders whether or not the renderer is visible.
RerenderOn_WhileHidden(st, env) ==
  LET st1 == [st EXCEPT !.dirty = FALSE, !.passes = @ + 1,
                        !.screen = EmptyBatch, !.cleared = TRUE]
      st2 == RenderNode(st1, env, RootParentBounds, 1)
  IN IF st2.threw THEN st2
     ELSE [st2 EXCEPT !.screen = st2.out, !.wrote = TRUE]

\* A bug rerender could have: on a hidden renderer the dirty flag is cleared.
RerenderOn_ForgetsWhileHidden(st, env) ==
  IF ~ isVisible THEN [st EXCEPT !.dirty = FALSE]
  ELSE LET st1 == [st EXCEPT !.dirty = FALSE, !.passes = @ + 1,
                             !.screen = EmptyBatch, !.cleared = TRUE]
           st2 == RenderNode(st1, env, RootParentBounds, 1)
       IN IF st2.threw THEN st2
          ELSE [st2 EXCEPT !.screen = st2.out, !.wrote = TRUE]

\* rerender()
RerenderOn(st, env) ==
  IF ~ isVisible THEN st
  ELSE LET st1 == [st EXCEPT !.dirty = FALSE, !.passes = @ + 1,
                             !.screen = EmptyBatch, !.cleared = TRUE]
           st2 == RenderNode(st1, env, RootParentBounds, 1)
       IN IF st2.threw THEN st2
          ELSE [st2 EXCEPT !.screen = st2.out, !.wrote = TRUE]

\* A bug the interval callback could have: it renders on every tick.
IntervalOn_Always(st, env) == RerenderOn(st, env)

\* The interval callback set by start()
IntervalOn(st, env) == IF st.dirty THEN RerenderOn(st, env) ELSE st

\* A bug reroot could have: the cache is kept.
RerootOn_KeepsCache(st, root) ==
  IF ~ rootComponent THEN [st EXCEPT !.threw = TRUE]
  ELSE [st EXCEPT !.construct = root, !.dirty = TRUE]

\* reroot(root) on the renderer's fields held in st
RerootOn(st, root) ==
  IF ~ rootComponent THEN [st EXCEPT !.threw = TRUE]
  ELSE [st EXCEPT !.construct = root, !.cache = EmptyBatch, !.dirty = TRUE]

\* -------------------------------------------------------------- scheduler

\* A bug start could have: an interval is set whether or not one exists.
StartOn_NoGuard(r) ==
  [r EXCEPT !.timer = TRUE, !.intervals = @ + 1]

\* start(fps?) on the fields timer and intervals held in r (threw: it raised
\* 'Renderer is already running')
StartOn(r) ==
  IF r.timer THEN [r EXCEPT !.threw = TRUE]
  ELSE [r EXCEPT !.timer = TRUE, !.intervals = @ + 1]

\* A bug stop could have: it returns without an error when nothing runs.
StopOn_NoError(r) ==
  IF ~ r.timer THEN r
  ELSE [r EXCEPT !.timer = FALSE, !.intervals = @ - 1]

\* stop() (threw: it raised 'Renderer is not running')
StopOn(r) ==
  IF ~ r.timer THEN [r EXCEPT !.threw = TRUE]
  ELSE [r EXCEPT !.timer = FALSE, !.intervals = @ - 1]

\* A bug dispose could have: the scheduler is left running.
DisposeOn_KeepsTimer(r, destroyNull) ==
  IF ~ r.rootComponent
  THEN [r EXCEPT !.threw = ~ destroyNull]
  ELSE [r EXCEPT !.destroyed = @ + 1, !.rootComponent = FALSE]

\* dispose().  What VComponent.destroy does when it is handed null (a second
\* dispose) is up to VComponent: destroyNull says whether it returns.
DisposeOn(r, destroyNull) ==
  LET r1 == IF r.timer THEN StopOn(r) ELSE r
  IN IF ~ r1.rootComponent
     THEN [r1 EXCEPT !.threw = ~ destroyNull]
     ELSE [r1 EXCEPT !.destroyed = @ + 1, !.rootComponent = FALSE]

\* The fields start, stop and dispose work on, before the call.
Sched ==
  [ timer |-> timer, intervals |-> intervals, rootComponent |-> rootComponent,
    destroyed |-> destroyed, threw |-> FALSE ]

\* ------------------------------------------------------------- hook store

Values == 0 .. MaxValue

\* A slot made by useState holds an object {v: x}; a slot made by
\* _useDynamicState holds the value itself.
Obj(x) == [obj |-> TRUE, v |-> x]
Raw(x) == [obj |-> FALSE, v |-> x]

\* What reading past the end of component.state (or a hole in it) gives.
Undefined == [obj |-> FALSE, v |-> -1]

\* component.state[index]
Slot(comp, index) ==
  IF index < Len(comp.state) THEN comp.state[index + 1] ELSE Undefined

\* component.state[index] = value: an index past the end lengthens the array
SetSlot(slots, index, value) ==
  [ i \in 1 .. (IF index + 1 > Len(slots) THEN index + 1 ELSE Len(slots)) |->
      IF i = index + 1 THEN value
      ELSE IF i <= Len(slots) THEN slots[i] ELSE Undefined ]

\* A bug the hooks could have: the slot is pushed in every render.
NewSlot_EveryRender(comp, index, value) ==
  [comp |-> [comp EXCEPT !.state = Append(@, value)], threw |-> FALSE]

\* The block `if (component.isBeingCreated) { sanity check; component.state.push(..) }`
\* of useState and of _useDynamicState.
NewSlot(comp, index, value) ==
  IF comp.isBeingCreated
  THEN IF Len(comp.state) # index
       THEN [comp |-> comp, threw |-> TRUE]
       ELSE [comp |-> [comp EXCEPT !.state = Append(@, value)], threw |-> FALSE]
  ELSE [comp |-> comp, threw |-> FALSE]

\* useState(initialState), up to the proxy it returns.  comp.id is the
\* component getVComponent() returned; updated are the components
\* VComponent.update was called for.
UseStateOn(comp, initialState) ==
  LET index == comp.nextStateIndex
      r == NewSlot([comp EXCEPT !.nextStateIndex = @ + 1], index, Obj(initialState))
  IN [ comp |-> r.comp, index |-> index, threw |-> r.threw,
       value |-> Slot(r.comp, index), updated |-> {} ]

\* _useDynamicState(initialState, doUpdate), up to the [get, set] it returns
UseDynamicStateOn(comp, initialState) ==
  LET index == comp.nextStateIndex
      r == NewSlot([comp EXCEPT !.nextStateIndex = @ + 1], index, Raw(initialState))
  IN [ comp |-> r.comp, index |-> index, threw |-> r.threw,
       value |-> Slot(r.comp, index), updated |-> {} ]

\* A bug the setter could have: it assigns and updates whatever the slot holds.
SetOn_Always(comp, index, newState, doUpdate) ==
  [ comp |-> [comp EXCEPT !.state = SetSlot(@, index, Raw(newState))],
    updated |-> IF doUpdate THEN {comp.id} ELSE {} ]

\* The setter of _useDynamicState, for the slot at index of the component
\* the hook call captured
SetOn(comp, index, newState, doUpdate) ==
  IF Slot(comp, index) # Raw(newState)
  THEN [ comp |-> [comp EXCEPT !.state = SetSlot(@, index, Raw(newState))],
         updated |-> IF doUpdate THEN {comp.id} ELSE {} ]
  ELSE [ comp |-> comp, updated |-> {} ]

\* The getter of _useDynamicState
GetOn(comp, index) == Slot(comp, index)

\* A bug useStateFast could have: it returns initialState, not the slot.
UseStateFastOn_Initial(comp, initialState) ==
  [UseDynamicStateOn(comp, initialState) EXCEPT !.value = Raw(initialState)]

\* useStateFast(initialState): [get(), set]
UseStateFastOn(comp, initialState) == UseDynamicStateOn(comp, initialState)

\* A bug useDynamic could have: its setter is made with doUpdate = true.
UseDynamicOn_Updates(comp, value) ==
  LET r == UseDynamicStateOn(comp, value)
  IN IF r.threw THEN r
     ELSE LET w == SetOn(r.comp, r.index, value, TRUE)
          IN [r EXCEPT !.comp = w.comp, !.value = Slot(w.comp, r.index),
                       !.updated = w.updated]

\* A bug useDynamic could have: the value is not set again in later renders.
UseDynamicOn_NoSet(comp, value) == UseDynamicStateOn(comp, value)

\* useDynamic(value): set(value), then the getter is returned
UseDynamicOn(comp, value) ==
  LET r == UseDynamicStateOn(comp, value)
  IN IF r.threw THEN r
     ELSE LET w == SetOn(r.comp, r.index, value, FALSE)
          IN [r EXCEPT !.comp = w.comp, !.value = Slot(w.comp, r.index),
                       !.updated = w.updated]

\* A bug useState could have: the component rendering at the time of the
\* write is updated.
OnSetProp_Current(component, now) == {now} \ {"none"}

\* The callback useState hands to augmentSetProp, run when a property of the
\* proxy is set while getVComponent() would return `now`:
\* VComponent.update(component, ..) for the component useState captured.
OnSetProp(component, now) == {component}

\* A write `proxy.v = x` through the proxy augmentSetProp returned for the
\* slot's object: the object is changed and the callback is run.
WriteOn(comp, index, x, now) ==
  [ comp |-> [comp EXCEPT !.state = SetSlot(@, index, Obj(x))],
    updated |-> OnSetProp(comp.id, now) ]

HookKinds == {"useState", "useStateFast", "useDynamic"}

\* A hook call of the component function
HookOn(kind, comp, arg) ==
  CASE kind = "useState"     -> UseStateOn(comp, arg)
    [] kind = "useStateFast" -> UseStateFastOn(comp, arg)
    [] OTHER                 -> UseDynamicOn(comp, arg)

\* ------------------------------------------------------------ props proxy

\* The props of the root component: two plain properties and a nested object.
PropsSet ==
  [ x : Values, prompts : Values, nested : [y : Values, prompts : Values] ]

\* A property reached through the proxy `p`: p.x, p.prompts, p.nested.y, ..
Paths == {<<"x">>, <<"prompts">>, <<"nested", "y">>, <<"nested", "prompts">>}

\* The tree the root component builds from the props
Tree(pr) ==
  [ size |-> IF pr.x = 0 THEN 1 ELSE NumNodes, variant |-> "plain" ]

\* `(target as any)[p] = value` for the property at path
WriteProp(pr, path, value) ==
  IF Len(path) = 1
  THEN [pr EXCEPT ![path[1]] = value]
  ELSE [pr EXCEPT ![path[1]][path[2]] = value]

\* A bug the set trap could have: `prompts` is assigned like any property.
SetTrap_NoPromptsCheck(pr, path, value) ==
  [props |-> WriteProp(pr, path, value), threw |-> FALSE, reroots |-> 1]

\* A bug the set trap could have: only the root's proxy calls updateProps.
SetTrap_RootOnly(pr, path, value) ==
  IF Len(path) = 1 /\ path[1] = "prompts"
  THEN [props |-> pr, threw |-> TRUE, reroots |-> 0]
  ELSE [props |-> WriteProp(pr, path, value), threw |-> FALSE,
        reroots |-> IF Len(path) = 1 THEN 1 ELSE 0]

\* The set trap of propsProxy, for an assignment to the property at path:
\* the root's proxy (isRoot) for a path of length 1, else the proxy the get
\* trap made for the nested object (isRoot = false).  reroots counts the
\* calls of updateProps, each of which calls reroot.
SetTrap(pr, path, value) ==
  IF Len(path) = 1 /\ path[1] = "prompts"
  THEN [props |-> pr, threw |-> TRUE, reroots |-> 0]
  ELSE [props |-> WriteProp(pr, path, value), threw |-> FALSE, reroots |-> 1]

NoPev == [op |-> "none", path |-> <<>>, value |-> 0, threw |-> FALSE, reroots |-> 0]

\* --------------------------------------------------------- JSX intrinsics

\* `undefined` as a direction and as a gap
NoDirection == "undefined"
NoGap == -1

Directions == {NoDirection, "horizontal", "vertical", "overlap"}
Gaps == {NoGap} \cup (0 .. MaxGap)

\* VJSX: a node, null, undefined or an array of VJSX
JNode(n) == [tag |-> "node", id |-> n, items |-> <<>>]
JNull == [tag |-> "null", id |-> "", items |-> <<>>]
JUndefined == [tag |-> "undefined", id |-> "", items |-> <<>>]
JArray(s) == [tag |-> "array", id |-> "", items |-> s]

\* The fragments (arrays) passed as one child
Fragments ==
  { <<>>,
    <<JNode("a")>>,
    <<JNull, JNode("b")>>,
    <<JNode("a"), JArray(<<JNode("b"), JUndefined>>)>>,
    <<JArray(<<>>)>> }

JsxItems ==
  {JNode("a"), JNode("b"), JNull, JUndefined} \cup {JArray(f) : f \in Fragments}

\* The rest arguments `...children`
JsxChildren == UNION {[1 .. n -> JsxItems] : n \in 0 .. MaxJsxChildren}

\* The calls: box takes a direction, hbox, vbox and zbox take none.
JsxInputs ==
  [ tag : {"box"}, direction : Directions, gap : Gaps, children : JsxChildren ]
    \cup [ tag : {"hbox", "vbox", "zbox"}, direction : {NoDirection}, gap : Gaps,
           children : JsxChildren ]

RECURSIVE Collapse(_)
RECURSIVE CollapseAll(_)

\* jsx.flatMap(collapse)
CollapseAll(items) ==
  IF items = <<>> THEN <<>> ELSE Collapse(Head(items)) \o CollapseAll(Tail(items))

\* VJSX.collapse
Collapse(jsx) ==
  IF jsx.tag = "array" THEN CollapseAll(jsx.items)
  ELSE IF jsx.tag \in {"null", "undefined"} THEN <<>>
  ELSE <<jsx.id>>

\* jsxToNormalAttrs: the direction and the gap are those of the props.
JsxToNormalAttrs(direction, gap) == [direction |-> direction, gap |-> gap]

\* VBox(children, {.., sublayout}): a box node with these children
VBox(children, sublayout) ==
  [type |-> "box", children |-> children, sublayout |-> sublayout]

NoNode == [type |-> "none", children |-> <<>>,
           sublayout |-> [direction |-> NoDirection, gap |-> NoGap]]

\* A bug intrinsics.box could have: the children are counted as passed,
\* before fragments are flattened and null and undefined are dropped.
BoxOn_CountsArguments(direction, gap, children) ==
  LET attrs == JsxToNormalAttrs(direction, gap)
      children_ == CollapseAll(children)
  IN [ warned |-> (Len(children) > 1 /\ attrs.direction = NoDirection),
       node |-> VBox(children_, [direction |-> attrs.direction, gap |-> attrs.gap]) ]

\* intrinsics.box(props, ...children)
BoxOn(direction, gap, children) ==
  LET attrs == JsxToNormalAttrs(direction, gap)
      children_ == CollapseAll(children)
  IN [ warned |-> (Len(children_) > 1 /\ attrs.direction = NoDirection),
       node |-> VBox(children_, [direction |-> attrs.direction, gap |-> attrs.gap]) ]

\* ------------------------------------------------------ renderDivChildren

\* `render.pixi` null: the child is given no position.
NoPos == -1

Max(a, b) == IF a >= b THEN a ELSE b

\* The children of a box: graphic nodes with a width and a height; an
\* invisible one is rendered as {pixi: null, width: 0, height: 0}.
DivNodes ==
  [ visible : {TRUE}, width : 1 .. MaxSize, height : 1 .. MaxSize ]
    \cup { [visible |-> FALSE, width |-> 1, height |-> 1] }

DivInputs ==
  [ children : UNION {[1 .. n -> DivNodes] : n \in 0 .. MaxDivChildren},
    direction : Directions, gap : Gaps ]

\* renderNodeImpl(child) for a graphic node
RenderGraphic(node) ==
  IF ~ node.visible
  THEN [pixi |-> FALSE, width |-> 0, height |-> 0]
  ELSE [pixi |-> TRUE, width |-> node.width, height |-> node.height]

NoRender == [threw |-> FALSE, done |-> FALSE, width |-> 0, height |-> 0, at |-> <<>>]

RECURSIVE RenderDivLoop(_, _, _, _, _)

\* A bug the loops could have: no isFirst, the gap is added before the first
\* child too.
RenderDivLoop_GapBeforeFirst(children, direction, gap, k, acc) ==
  IF k > Len(children) THEN acc
  ELSE
    LET render == RenderGraphic(children[k])
        vertical == direction = "vertical"
        extent == IF gap = NoGap THEN 0 ELSE gap * (IF vertical THEN EM ELSE EM \div 2)
        start == (IF vertical THEN acc.height ELSE acc.width) + extent
    IN  RenderDivLoop(children, direction, gap, k + 1,
          [acc EXCEPT !.at = Append(@, IF render.pixi THEN start ELSE NoPos),
                      !.width = IF vertical THEN Max(acc.width, render.width)
                                ELSE start + render.width,
                      !.height = IF vertical THEN start + render.height
                                 ELSE Max(acc.height, render.height)])

\* The three loops over the children, from child k on.  acc.width and
\* acc.height are the variables width and height; acc.at[i] is the x (in a
\* horizontal box) or y (in a vertical box) given to child i's pixi, 0 where
\* the code leaves it alone, NoPos for a child without pixi.
RenderDivLoop(children, direction, gap, k, acc) ==
  IF k > Len(children) THEN acc
  ELSE
    LET isFirst == k = 1
        render == RenderGraphic(children[k])
    IN  IF direction = "vertical"
        THEN LET height == IF gap # NoGap /\ ~ isFirst
                           THEN acc.height + gap * EM ELSE acc.height
             IN RenderDivLoop(children, direction, gap, k + 1,
                  [acc EXCEPT !.at = Append(@, IF render.pixi THEN height ELSE NoPos),
                              !.width = Max(acc.width, render.width),
                              !.height = height + render.height])
        ELSE IF direction = "horizontal"
        THEN LET width == IF gap # NoGap /\ ~ isFirst
                          THEN acc.width + gap * (EM \div 2) ELSE acc.width
             IN RenderDivLoop(children, direction, gap, k + 1,
                  [acc EXCEPT !.at = Append(@, IF render.pixi THEN width ELSE NoPos),
                              !.width = width + render.width,
                              !.height = Max(acc.height, render.height)])
        ELSE RenderDivLoop(children, direction, gap, k + 1,
                  [acc EXCEPT !.at = Append(@, IF render.pixi THEN 0 ELSE NoPos),
                              !.width = Max(acc.width, render.width),
                              !.height = Max(acc.height, render.height)])

\* A bug renderDivChildren could have: a gap without a direction is ignored.
RenderDivChildrenOn_IgnoresGap(children, direction, gap) ==
  RenderDivLoop(children, direction, gap, 1, [NoRender EXCEPT !.done = TRUE])

\* renderDivChildren(children, renderDirection, gap)
RenderDivChildrenOn(children, direction, gap) ==
  IF direction \notin {"vertical", "horizontal"} /\ gap # NoGap
  THEN [NoRender EXCEPT !.threw = TRUE]
  ELSE RenderDivLoop(children, direction, gap, 1, [NoRender EXCEPT !.done = TRUE])

\* ------------------------------------------------------------ asset cacher

AssetPaths == {"a.png", "b.png"}

Callers == 1 .. MaxCallers

\* No call of getAsync yet
NoHandle == [kind |-> "none", path |-> "", value |-> "null", registered |-> FALSE]

\* getAsync(path, construct): the map afterwards, the first element of the
\* pair returned and the kind of function that is its second element ("noop"
\* for `() => {}`, "load" for the one that calls construct).  A key whose
\* value is null is a key the map has.
GetAsyncOn(map, path) ==
  IF map[path] # "absent"
  THEN [assets |-> map, value |-> map[path], kind |-> "noop"]
  ELSE [assets |-> [map EXCEPT ![path] = "null"], value |-> "null", kind |-> "load"]

\* get(path, construct): construct is called when the map has no such key.
GetOnAssets(map, path) ==
  IF map[path] # "absent"
  THEN [assets |-> map, value |-> map[path], constructed |-> FALSE]
  ELSE [assets |-> [map EXCEPT ![path] = "image"], value |-> "image", constructed |-> TRUE]

\* ---------------------------------------------------------------- history

\* No construct function (the operation was given none).
NoRoot == [size |-> 0, variant |-> "none"]

\* What an operation did: its name, the node it was given (or the root, when
\* the operation took it), whether it raised
\* an error, and for a pass: how many passes ran, whether clear() and
\* writeRender() were called, which nodes a draw primitive was called for,
\* the calls of renderNode, and whether the re-entrant call was made.
NoEv ==
  [ op |-> "init", node |-> 0, root |-> NoRoot, threw |-> FALSE, passes |-> 0, cleared |-> FALSE,
    wrote |-> FALSE, drawn |-> {}, calls |-> {}, fired |-> FALSE, marked |-> None,
    marks |-> 0, afterHide |-> FALSE, resolved |-> {} ]

\* The history of a pass; `marks` there is the count before the operation.
EvOf(op, st) ==
  [ op |-> op, node |-> 0, root |-> NoRoot, threw |-> st.threw, passes |-> st.passes,
    cleared |-> st.cleared, wrote |-> st.wrote, drawn |-> st.drawn,
    calls |-> st.calls, fired |-> st.fired, marked |-> st.marked, marks |-> marks,
    afterHide |-> FALSE, resolved |-> st.resolved ]

OneMore(m) == IF m < MaxMarks THEN m + 1 ELSE m

\* The count after an operation that may have run a pass: a pass starts the
\* count again, and a mark made inside the pass is counted.
MarksAfter(st) ==
  IF st.passes = 0 THEN marks ELSE IF st.fired THEN 1 ELSE 0

\* What the last use of a handle did: which slot, the value given, the slot
\* before, what a getter returned, the components VComponent.update was
\* called for.  It is kept while the next render makes its hook calls and
\* forgotten when a render ends.
NoHev ==
  [ op |-> "none", index |-> 0, arg |-> 0, before |-> Undefined, result |-> Undefined,
    updated |-> {} ]

\* The component's fields the hooks and their handles work on; id is the
\* component itself, which getVComponent() returns while it renders.
Comp ==
  [ id |-> "self", state |-> state, nextStateIndex |-> nextStateIndex,
    isBeingCreated |-> isBeingCreated ]

\* The handles the application holds: those the construction pass returned
\* and those the current (or last) render returned.  A handle is the closure
\* over the component and the index of its hook call.
Handles ==
  { [kind |-> created[j], index |-> j - 1] : j \in DOMAIN created }
    \cup { [kind |-> called[j].kind, index |-> called[j].index] :
             j \in {i \in DOMAIN called : ~ called[i].threw} }

\* ---------------------------------------------------------------- actions

\* The state after the constructor and finishInit.  finishInit hands the
\* renderer to VRoot, which builds the root component and may mark the
\* renderer dirty; the cache is empty either way.
RendererInit ==
  /\ cachedRenders = EmptyBatch
  /\ needsRerender \in BOOLEAN
  /\ timer = FALSE
  /\ intervals = 0
  /\ isVisible = TRUE
  /\ rootComponent = TRUE
  /\ destroyed = 0
  /\ construct \in Constructs
  /\ rootBox \in 1 .. NumRootBoxes
  /\ screen = EmptyBatch
  /\ marks = IF needsRerender THEN 1 ELSE 0
  /\ ev = NoEv

\* start(fps?)
Start ==
  /\ \E r \in {StartOn(Sched)} :
        /\ timer' = r.timer
        /\ intervals' = r.intervals
        /\ ev' = [NoEv EXCEPT !.op = "start", !.threw = r.threw]
  /\ UNCHANGED <<cachedRenders, needsRerender, isVisible, rootComponent, destroyed,
                 construct, rootBox, screen, marks>>
  /\ UNCHANGED <<hvars, avars, jvars, cvars>>

\* stop()
Stop ==
  /\ \E r \in {StopOn(Sched)} :
        /\ timer' = r.timer
        /\ intervals' = r.intervals
        /\ ev' = [NoEv EXCEPT !.op = "stop", !.threw = r.threw]
  /\ UNCHANGED <<cachedRenders, needsRerender, isVisible, rootComponent, destroyed,
                 construct, rootBox, screen, marks>>
  /\ UNCHANGED <<hvars, avars, jvars, cvars>>

\* show(): isVisible is set before start() can raise its error
Show ==
  /\ isVisible' = TRUE
  /\ \E r \in {StartOn(Sched)} :
        /\ timer' = r.timer
        /\ intervals' = r.intervals
        /\ ev' = [NoEv EXCEPT !.op = "show", !.threw = r.threw,
                                !.afterHide = (ev.op = "hide" /\ ~ ev.threw)]
  /\ UNCHANGED <<cachedRenders, needsRerender, rootComponent, destroyed, construct,
                 rootBox, screen, marks>>
  /\ UNCHANGED <<hvars, avars, jvars, cvars>>

\* hide(): when stop() raises its error, clear() and the assignment are not reached
Hide ==
  /\ \E r \in {StopOn(Sched)} :
        /\ timer' = r.timer
        /\ intervals' = r.intervals
        /\ screen' = IF r.threw THEN screen ELSE EmptyBatch
        /\ isVisible' = IF r.threw THEN isVisible ELSE FALSE
        /\ ev' = [NoEv EXCEPT !.op = "hide", !.threw = r.threw, !.cleared = ~ r.threw]
  /\ UNCHANGED <<cachedRenders, needsRerender, rootComponent, destroyed, construct,
                 rootBox, marks>>
  /\ UNCHANGED <<hvars, avars, jvars, cvars>>

\* setNeedsRerender(diff), called from outside a pass
SetNeedsRerender(diff) ==
  \E st \in {SetNeedsRerenderOn(PassStart, diff)} :
     /\ cachedRenders' = st.cache
     /\ needsRerender' = st.dirty
     /\ marks' = OneMore(marks)
     /\ ev' = [NoEv EXCEPT !.op = "setNeedsRerender", !.node = diff, !.marks = marks]
     /\ UNCHANGED <<timer, intervals, isVisible, rootComponent, destroyed, construct,
                    rootBox, screen>>
     /\ UNCHANGED <<hvars, avars, jvars, cvars>>

\* reroot(root): `this.rootComponent!.construct = root` raises a TypeError
\* when rootComponent is null, before anything is changed
Reroot(root) ==
  /\ \E st \in {RerootOn(PassStart, root)} :
        /\ construct' = st.construct
        /\ cachedRenders' = st.cache
        /\ needsRerender' = st.dirty
        /\ marks' = IF st.threw THEN marks ELSE OneMore(marks)
        /\ ev' = [NoEv EXCEPT !.op = "reroot", !.threw = st.threw, !.marks = marks,
                              !.root = IF st.threw THEN NoRoot ELSE root]
  /\ UNCHANGED <<timer, intervals, isVisible, rootComponent, destroyed, rootBox, screen>>
  /\ UNCHANGED <<hvars, avars, jvars, cvars>>

\* rerender(), called from outside a pass (its call-outs make no call back)
Rerender ==
  \E st \in {RerenderOn(PassStart, [c |-> construct, hook |-> NoHook])} :
     /\ cachedRenders' = st.cache
     /\ needsRerender' = st.dirty
     /\ screen' = st.screen
     /\ marks' = MarksAfter(st)
     /\ ev' = EvOf("rerender", st)
     /\ UNCHANGED <<timer, intervals, isVisible, rootComponent, destroyed, construct,
                    rootBox>>
     /\ UNCHANGED <<hvars, avars, jvars, cvars>>

\* A tick of the interval set by start().  A tick that runs no pass makes no
\* call-out, so there is no call back to choose.
Tick(hook) ==
  /\ intervals >= 1
  /\ (~ needsRerender \/ ~ isVisible) => hook = NoHook
  /\ \E st \in {IntervalOn(PassStart, [c |-> construct, hook |-> hook])} :
        /\ cachedRenders' = st.cache
        /\ needsRerender' = st.dirty
        /\ screen' = st.screen
        /\ marks' = MarksAfter(st)
        /\ ev' = EvOf("tick", st)
  /\ UNCHANGED <<timer, intervals, isVisible, rootComponent, destroyed, construct,
                 rootBox>>
  /\ UNCHANGED <<hvars, avars, jvars, cvars>>

\* The backend's root box changes (the terminal or the window is resized)
Resize ==
  /\ rootBox' \in (1 .. NumRootBoxes) \ {rootBox}
  /\ ev' = [NoEv EXCEPT !.op = "resize"]
  /\ UNCHANGED <<cachedRenders, needsRerender, timer, intervals, isVisible, rootComponent,
                 destroyed, construct, screen, marks>>
  /\ UNCHANGED <<hvars, avars, jvars, cvars>>

\* dispose()
Dispose(destroyNull) ==
  /\ \E r \in {DisposeOn(Sched, destroyNull)} :
        /\ timer' = r.timer
        /\ intervals' = r.intervals
        /\ rootComponent' = r.rootComponent
        /\ destroyed' = r.destroyed
        /\ ev' = [NoEv EXCEPT !.op = "dispose", !.threw = r.threw]
  /\ UNCHANGED <<cachedRenders, needsRerender, isVisible, construct, rootBox, screen, marks>>
  /\ UNCHANGED <<hvars, avars, jvars, cvars>>

\* An assignment through the props proxy: p.x = value, p.nested.y = value, ..
\* updateProps hands the props to reroot; the root component builds its tree
\* from them.
Assign(path, value) ==
  /\ \E r \in {SetTrap(props, path, value)} :
       \E st \in {IF r.reroots > 0 THEN RerootOn(PassStart, Tree(r.props)) ELSE PassStart} :
          /\ props' = r.props
          /\ construct' = st.construct
          /\ cachedRenders' = st.cache
          /\ needsRerender' = st.dirty
          /\ marks' = IF r.reroots > 0 /\ ~ st.threw THEN OneMore(marks) ELSE marks
          /\ pev' = [ op |-> "assign", path |-> path, value |-> value,
                      threw |-> (r.threw \/ st.threw), reroots |-> r.reroots ]
          /\ ev' = [NoEv EXCEPT !.op = "assign", !.threw = (r.threw \/ st.threw),
                                !.marks = marks]
  /\ UNCHANGED <<timer, intervals, isVisible, rootComponent, destroyed, rootBox, screen>>
  /\ UNCHANGED <<hvars, jvars, cvars>>

\* ------------------------------------------- JSX and layout actions

\* <box direction=.. gap=..>children</box>
Box ==
  /\ jsxIn.tag = "box" /\ vnode = NoNode
  /\ \E r \in {BoxOn(jsxIn.direction, jsxIn.gap, jsxIn.children)} :
       /\ vnode' = r.node
       /\ console' = IF r.warned THEN console + 1 ELSE console
  /\ UNCHANGED <<jsxIn, divIn, vrender>>
  /\ UNCHANGED <<rvars, hvars, avars, cvars>>

\* <hbox gap=..>children</hbox>
Hbox ==
  /\ jsxIn.tag = "hbox" /\ vnode = NoNode
  /\ \E r \in {BoxOn("horizontal", jsxIn.gap, jsxIn.children)} :
       /\ vnode' = r.node
       /\ console' = IF r.warned THEN console + 1 ELSE console
  /\ UNCHANGED <<jsxIn, divIn, vrender>>
  /\ UNCHANGED <<rvars, hvars, avars, cvars>>

\* <vbox gap=..>children</vbox>
Vbox ==
  /\ jsxIn.tag = "vbox" /\ vnode = NoNode
  /\ \E r \in {BoxOn("vertical", jsxIn.gap, jsxIn.children)} :
       /\ vnode' = r.node
       /\ console' = IF r.warned THEN console + 1 ELSE console
  /\ UNCHANGED <<jsxIn, divIn, vrender>>
  /\ UNCHANGED <<rvars, hvars, avars, cvars>>

\* <zbox gap=..>children</zbox>
Zbox ==
  /\ jsxIn.tag = "zbox" /\ vnode = NoNode
  /\ \E r \in {BoxOn("overlap", jsxIn.gap, jsxIn.children)} :
       /\ vnode' = r.node
       /\ console' = IF r.warned THEN console + 1 ELSE console
  /\ UNCHANGED <<jsxIn, divIn, vrender>>
  /\ UNCHANGED <<rvars, hvars, avars, cvars>>

\* this.renderDivChildren(node.children, direction, gap)
RenderDivChildren ==
  /\ vrender = NoRender
  /\ vrender' = RenderDivChildrenOn(divIn.children, divIn.direction, divIn.gap)
  /\ UNCHANGED <<jsxIn, vnode, console, divIn>>
  /\ UNCHANGED <<rvars, hvars, avars, cvars>>

\* No intrinsic and no layout is looked at
BoxIdle ==
  /\ jsxIn = [tag |-> "box", direction |-> NoDirection, gap |-> NoGap, children |-> <<>>]
  /\ vnode = NoNode
  /\ console = 0
  /\ divIn = [children |-> <<>>, direction |-> NoDirection, gap |-> NoGap]
  /\ vrender = NoRender

\* ---------------------------------------------------- asset cacher actions

\* A new asset cacher, and nothing asked of it
AssetInit ==
  /\ assets = [path \in AssetPaths |-> "absent"]
  /\ handles = [caller \in Callers |-> NoHandle]
  /\ loading = {}
  /\ started = [path \in AssetPaths |-> 0]
  /\ notified = {}

\* const [value, onLoad] = getAsync(path, construct), by a caller
GetAsync(caller, path) ==
  /\ handles[caller].kind = "none"
  /\ \E r \in {GetAsyncOn(assets, path)} :
       /\ assets' = r.assets
       /\ handles' = [handles EXCEPT ![caller] =
                        [kind |-> r.kind, path |-> path, value |-> r.value,
                         registered |-> FALSE]]
  /\ UNCHANGED <<loading, started, notified>>
  /\ UNCHANGED <<rvars, hvars, avars, jvars>>

\* onLoad(didFind): the caller hands its callback to the function it was
\* given; the one that loads calls construct(path).
Register(caller) ==
  /\ handles[caller].kind # "none" /\ ~ handles[caller].registered
  /\ handles' = [handles EXCEPT ![caller].registered = TRUE]
  /\ IF handles[caller].kind = "load"
     THEN /\ loading' = loading \cup {[path |-> handles[caller].path, caller |-> caller]}
          /\ started' = [started EXCEPT ![handles[caller].path] = @ + 1]
     ELSE UNCHANGED <<loading, started>>
  /\ UNCHANGED <<assets, notified>>
  /\ UNCHANGED <<rvars, hvars, avars, jvars>>

\* The promise of construct(path) is fulfilled: the `then` callback runs.
Loaded(load) ==
  /\ load \in loading
  /\ loading' = loading \ {load}
  /\ assets' = [assets EXCEPT ![load.path] = "image"]
  /\ notified' = notified \cup {load.caller}
  /\ UNCHANGED <<handles, started>>
  /\ UNCHANGED <<rvars, hvars, avars, jvars>>

\* The promise of construct(path) is rejected: no callback runs.
Failed(load) ==
  /\ load \in loading
  /\ loading' = loading \ {load}
  /\ UNCHANGED <<assets, handles, started, notified>>
  /\ UNCHANGED <<rvars, hvars, avars, jvars>>

\* get(path, construct)
AssetGet(path) ==
  /\ \E r \in {GetOnAssets(assets, path)} :
       /\ assets' = r.assets
       /\ started' = IF r.constructed THEN [started EXCEPT ![path] = @ + 1] ELSE started
  /\ UNCHANGED <<handles, loading, notified>>
  /\ UNCHANGED <<rvars, hvars, avars, jvars>>

\* ------------------------------------------------------ component actions

\* The component exists and its function has not run yet.
HookInit ==
  /\ state = <<>>
  /\ nextStateIndex = 0
  /\ isBeingCreated = TRUE
  /\ phase = "idle"
  /\ renders = 0
  /\ called = <<>>
  /\ created = <<>>
  /\ same = TRUE
  /\ current = "none"
  /\ hev = NoHev

\* VComponent starts a render of the component: the construction pass first
\* (isBeingCreated), later an update; the cursor starts at slot 0.
BeginRender ==
  /\ phase = "idle"
  /\ current = "none"
  /\ renders < MaxRenders
  /\ phase' = "rendering"
  /\ current' = "self"
  /\ nextStateIndex' = 0
  /\ isBeingCreated' = (renders = 0)
  /\ called' = <<>>
  /\ UNCHANGED <<state, renders, created, same, hev>>
  /\ UNCHANGED <<rvars, avars, jvars, cvars>>

\* The component function calls a hook
Hook(kind, arg) ==
  /\ phase = "rendering"
  /\ Len(called) < MaxHooks
  /\ \E r \in {HookOn(kind, Comp, arg)} :
        /\ state' = r.comp.state
        /\ nextStateIndex' = r.comp.nextStateIndex
        /\ phase' = IF r.threw THEN "failed" ELSE "rendering"
        /\ called' = Append(called, [kind |-> kind, index |-> r.index,
                                     value |-> r.value, threw |-> r.threw,
                                     given |-> IF kind = "useDynamic" THEN Raw(arg)
                                               ELSE Undefined,
                                     changed |-> Slot(r.comp, r.index) # Slot(Comp, r.index),
                                     updated |-> r.updated])
  /\ UNCHANGED <<isBeingCreated, renders, created, same, current, hev>>
  /\ UNCHANGED <<rvars, avars, jvars, cvars>>

\* The component function returns
EndRender ==
  /\ phase = "rendering"
  /\ phase' = "idle"
  /\ renders' = renders + 1
  /\ isBeingCreated' = FALSE
  /\ created' = IF renders = 0 THEN [j \in DOMAIN called |-> called[j].kind] ELSE created
  /\ same' = (same /\ (renders = 0 \/ [j \in DOMAIN called |-> called[j].kind] = created))
  /\ current' = "none"
  /\ hev' = NoHev
  /\ UNCHANGED <<state, nextStateIndex, called>>
  /\ UNCHANGED <<rvars, avars, jvars, cvars>>

\* Another component starts or ends its render
OtherRender ==
  /\ phase = "idle"
  /\ current' = IF current = "none" THEN "other" ELSE "none"
  /\ hev' = NoHev
  /\ UNCHANGED <<state, nextStateIndex, isBeingCreated, phase, renders, called, created, same>>
  /\ UNCHANGED <<rvars, avars, jvars, cvars>>

\* The application sets a property of the proxy useState returned for the
\* slot at h.index (the slot still holds the object the proxy wraps)
Write(h, x) ==
  /\ h.kind = "useState"
  /\ Slot(Comp, h.index).obj
  /\ \E w \in {WriteOn(Comp, h.index, x, current)} :
        /\ state' = w.comp.state
        /\ hev' = [NoHev EXCEPT !.op = "write", !.index = h.index, !.arg = x,
                                !.before = Slot(Comp, h.index), !.updated = w.updated]
  /\ UNCHANGED <<nextStateIndex, isBeingCreated, phase, renders, called, created, same,
                 current>>
  /\ UNCHANGED <<rvars, avars, jvars, cvars>>

\* The application calls the setter useStateFast returned for the slot at h.index
Set(h, x) ==
  /\ h.kind = "useStateFast"
  /\ \E w \in {SetOn(Comp, h.index, x, TRUE)} :
        /\ state' = w.comp.state
        /\ hev' = [NoHev EXCEPT !.op = "set", !.index = h.index, !.arg = x,
                                !.before = Slot(Comp, h.index), !.updated = w.updated]
  /\ UNCHANGED <<nextStateIndex, isBeingCreated, phase, renders, called, created, same,
                 current>>
  /\ UNCHANGED <<rvars, avars, jvars, cvars>>

\* The application calls the getter useDynamic returned for the slot at h.index
Get(h) ==
  /\ h.kind = "useDynamic"
  /\ hev' = [NoHev EXCEPT !.op = "get", !.index = h.index,
                          !.before = Slot(Comp, h.index),
                          !.result = GetOn(Comp, h.index)]
  /\ UNCHANGED <<state, nextStateIndex, isBeingCreated, phase, renders, called, created,
                 same, current>>
  /\ UNCHANGED <<rvars, avars, jvars, cvars>>

\* The renderer while the component is looked at on its own
RendererIdle ==
  /\ RendererInit
  /\ ~ needsRerender
  /\ construct = [size |-> 1, variant |-> "plain"]
  /\ rootBox = 1

HookNext ==
  \/ BeginRender
  \/ \E kind \in HookKinds, arg \in Values : Hook(kind, arg)
  \/ EndRender

\* The application object while the renderer or a component is looked at on
\* its own
AppIdle ==
  /\ props = [x |-> 0, prompts |-> 0, nested |-> [y |-> 0, prompts |-> 0]]
  /\ pev = NoPev

HookStart == RendererIdle /\ HookInit /\ AppIdle /\ BoxIdle /\ AssetInit

HookSpec == HookStart /\ [][HookNext]_vars

\* The component and the uses of the handles its hooks returned
HandleNext ==
  \/ renders < MaxHandleRenders /\ BeginRender
  \/ \E kind \in HookKinds, arg \in Values :
        Len(called) < MaxHandleHooks /\ Hook(kind, arg)
  \/ EndRender
  \/ OtherRender
  \/ \E h \in Handles, x \in Values : Write(h, x)
  \/ \E h \in Handles, x \in Values : Set(h, x)
  \/ \E h \in Handles : Get(h)

HandleSpec == HookStart /\ [][HandleNext]_vars

Init == RendererInit /\ HookInit /\ AppIdle /\ BoxIdle /\ AssetInit

Next ==
  \/ Start
  \/ Stop
  \/ Show
  \/ Hide
  \/ \E diff \in Nodes(construct) : SetNeedsRerender(diff)
  \/ \E root \in Constructs : Reroot(root)
  \/ Rerender
  \/ \E hook \in Hooks(construct) : Tick(hook)
  \/ Resize

\* The renderer from finishInit on, with the call-outs of its passes calling back
Spec == Init /\ [][Next]_vars

\* The renderer's life cycle up to and after dispose(); the call-outs of its
\* passes make no call back
LifeNext ==
  \/ Start
  \/ Stop
  \/ Show
  \/ Hide
  \/ \E diff \in Nodes(construct) : SetNeedsRerender(diff)
  \/ \E root \in Constructs : Reroot(root)
  \/ Rerender
  \/ Tick(NoHook)
  \/ Resize
  \/ \E destroyNull \in BOOLEAN : Dispose(destroyNull)

LifeSpec == Init /\ [][LifeNext]_vars

\* The life cycle of a renderer whose root is a single node, with a timer
\* that keeps ticking: while an interval is set, its callback is called again
\* and again.
LiveInit == Init /\ construct.size = 1

LiveNext ==
  \/ Start
  \/ Stop
  \/ Show
  \/ Hide
  \/ \E diff \in Nodes(construct) : SetNeedsRerender(diff)
  \/ \E root \in {c \in Constructs : c.size = 1} : Reroot(root)
  \/ Rerender
  \/ Tick(NoHook)
  \/ Resize

LiveSpec == LiveInit /\ [][LiveNext]_vars /\ WF_vars(Tick(NoHook))

\* The application object: a new DevolveUICore with its renderer
PropsInit ==
  /\ RendererInit
  /\ HookInit
  /\ props \in PropsSet
  /\ construct = Tree(props)
  /\ pev = NoPev
  /\ BoxIdle
  /\ AssetInit

PropsNext ==
  \/ \E path \in Paths, value \in Values : Assign(path, value)
  \/ Start
  \/ Tick(NoHook)
  \/ \E destroyNull \in BOOLEAN : Dispose(destroyNull)

PropsSpec == PropsInit /\ [][PropsNext]_vars

\* The JSX intrinsics on their own: one call with each input
JsxInit ==
  /\ RendererIdle /\ HookInit /\ AppIdle /\ AssetInit
  /\ jsxIn \in JsxInputs
  /\ vnode = NoNode
  /\ console = 0
  /\ divIn = [children |-> <<>>, direction |-> NoDirection, gap |-> NoGap]
  /\ vrender = NoRender

JsxNext == Box \/ Hbox \/ Vbox \/ Zbox

JsxSpec == JsxInit /\ [][JsxNext]_vars

\* renderDivChildren on its own: one call with each input
LayoutInit ==
  /\ RendererIdle /\ HookInit /\ AppIdle /\ AssetInit
  /\ jsxIn = [tag |-> "box", direction |-> NoDirection, gap |-> NoGap, children |-> <<>>]
  /\ vnode = NoNode
  /\ console = 0
  /\ divIn \in DivInputs
  /\ vrender = NoRender

LayoutNext == RenderDivChildren

LayoutSpec == LayoutInit /\ [][LayoutNext]_vars

\* The asset cacher on its own
AssetStart == RendererIdle /\ HookInit /\ AppIdle /\ BoxIdle /\ AssetInit

AssetNext ==
  \/ \E caller \in Callers, path \in AssetPaths : GetAsync(caller, path)
  \/ \E caller \in Callers : Register(caller)
  \/ \E load \in loading : Loaded(load)
  \/ \E load \in loading : Failed(load)
  \/ \E path \in AssetPaths : AssetGet(path)

AssetSpec == AssetStart /\ [][AssetNext]_vars

\* ----------------------------------------------------------------- claims

PassOps == {"tick", "rerender"}

Range(f) == {f[x] : x \in DOMAIN f}

\* The node and its ancestors up to the root: n, n div 2, n div 4, ...
PathToRoot(n) ==
  {m \in 1 .. NumNodes : \E k \in 0 .. NumNodes : m * (2 ^ k) <= n /\ n < (m + 1) * (2 ^ k)}

\* C1: setNeedsRerender(n) removes from the cache exactly the entries of n and
\* of its ancestors up to the root, leaves every other entry as it was, and
\* sets the dirty flag.
C1_EvictsExactlyThePath ==
  [][ ev'.op = "setNeedsRerender" =>
        /\ DOMAIN cachedRenders' = DOMAIN cachedRenders \ PathToRoot(ev'.node)
        /\ \A m \in DOMAIN cachedRenders' : cachedRenders'[m] = cachedRenders[m]
        /\ needsRerender' ]_vars

\* A leaf two levels down was marked: its path is gone, its sibling and the
\* other subtree are still cached.
C1_Witness ==
  /\ ev.op = "setNeedsRerender"
  /\ ev.node = 4
  /\ DOMAIN cachedRenders = {3, 5}
  /\ needsRerender

\* C2: renderNode serves a cached batch only when the node has an entry whose
\* recorded parentBounds equals the given one; otherwise a draw primitive is
\* called again for a visible leaf and, when the pass ends without an error
\* and without a mark made inside it, the node's entry is the one stored
\* under the given parentBounds.
C2_NeverServesStale ==
  ev.op \in PassOps =>
    \A call \in ev.calls :
      /\ call.served => call.had /\ call.old = call.parentBounds
      /\ (~ call.served /\ ~ ev.threw) =>
           /\ (Type(construct, call.node) # "box" /\ Visible(construct, call.node))
                => call.node \in ev.drawn
           /\ ~ ev.fired =>
                /\ call.node \in DOMAIN cachedRenders
                /\ cachedRenders[call.node].parentBounds = call.parentBounds

\* A pass that served one entry and evicted and recomputed another, which was
\* recorded under other parentBounds.
C2_Witness ==
  /\ ev.op \in PassOps
  /\ ~ ev.threw
  /\ \E call \in ev.calls : call.served
  /\ \E call \in ev.calls :
       /\ call.had /\ ~ call.served /\ call.old # call.parentBounds
       /\ cachedRenders[call.node].parentBounds = call.parentBounds

\* C3: of two passes in a row (same tree, same root box, no mark between them
\* or inside them) the second calls no draw primitive, leaves the cache as it
\* is and writes what the first wrote.
C3_SecondPassIdempotent ==
  [][ ( /\ ev.op \in PassOps /\ ev.passes = 1 /\ ~ ev.fired
        /\ ev'.op \in PassOps /\ ev'.passes = 1 /\ ~ ev'.fired )
      => /\ ev'.drawn = {}
         /\ cachedRenders' = cachedRenders
         /\ screen' = screen
         /\ ev'.wrote = ev.wrote ]_vars

\* A pass over a fully cached tree: the root's entry was served, nothing was
\* drawn, and the batch was written.
C3_Witness ==
  /\ ev.op \in PassOps /\ ev.passes = 1 /\ ev.wrote
  /\ ev.drawn = {}
  /\ construct.size = NumNodes
  /\ DOMAIN cachedRenders = Nodes(construct)
  /\ \A call \in ev.calls : call.node = 1 /\ call.served

\* C4: a tick of a visible renderer runs exactly one pass when one or more
\* dirty marks were made since the last pass, and no pass when none was.
C4_OnePassPerDirtyFrame ==
  (ev.op = "tick" /\ isVisible) =>
    /\ ev.passes = (IF ev.marks >= 1 THEN 1 ELSE 0)
    /\ ~ ev.fired => ~ needsRerender

\* A tick that ran one pass after two (or more) marks.
C4_Witness ==
  /\ ev.op = "tick" /\ isVisible /\ ev.marks >= 2
  /\ ev.passes = 1
  /\ ~ needsRerender

\* C5: a tick that finds the dirty flag unset does nothing: no clear, no
\* draw primitive, no writeRender, and the renderer's fields stay as they are.
C5_CleanTickIsNoOp ==
  [][ (ev'.op = "tick" /\ ~ needsRerender) =>
        /\ ev'.passes = 0 /\ ~ ev'.cleared /\ ~ ev'.wrote /\ ev'.drawn = {}
        /\ UNCHANGED <<cachedRenders, needsRerender, timer, isVisible, screen>> ]_vars

\* A tick without a pass that left output on the screen.
C5_Witness ==
  /\ ev.op = "tick" /\ ev.passes = 0 /\ ~ ev.cleared
  /\ ~ needsRerender
  /\ isVisible
  /\ screen # EmptyBatch

\* C6: a setNeedsRerender made inside a pass starts no pass of its own (the
\* tick runs one pass), the dirty flag is set when the pass has ended, and the
\* next tick runs a pass.
C6_ReentrantMarkDeferred ==
  [][ /\ (ev'.op = "tick" /\ ev'.fired) => (ev'.passes = 1 /\ needsRerender')
      /\ (ev.op = "tick" /\ ev.fired /\ ev'.op = "tick") => ev'.passes = 1 ]_vars

\* A pass that ended without an error, with a mark made inside it.
C6_Witness ==
  /\ ev.op = "tick" /\ ev.fired /\ ev.passes = 1 /\ ev.wrote
  /\ needsRerender

\* C7: a pass that raises an error leaves the backend's visible output as it
\* was before the pass.
C7_FailedPassKeepsOutput ==
  [][ (ev'.op \in PassOps /\ ev'.threw) => screen' = screen ]_vars

\* C8: the batch of a visible box holds every primitive of every child's
\* batch, and nothing else.
C8_BoxBatchIsUnion ==
  (ev.op \in PassOps /\ ev.wrote /\ ~ ev.fired) =>
    \A n \in DOMAIN cachedRenders :
      (Type(construct, n) = "box" /\ Visible(construct, n)) =>
        Range(cachedRenders[n].batch) =
          UNION { Range(cachedRenders[Children(construct, n)[i]].batch) :
                    i \in DOMAIN Children(construct, n) }

\* C9: when two children of a box each have a primitive at the same z, the
\* box's batch holds the earlier child's at z and the later child's at
\* another key.
C9_CollisionKeepsBoth ==
  (ev.op \in PassOps /\ ev.wrote /\ ~ ev.fired) =>
    \A n \in DOMAIN cachedRenders :
      (Type(construct, n) = "box" /\ Visible(construct, n)) =>
        LET kids == Children(construct, n)
            box  == cachedRenders[n].batch
        IN \A i, j \in DOMAIN kids :
             i < j =>
               LET a == cachedRenders[kids[i]].batch
                   b == cachedRenders[kids[j]].batch
               IN \A z \in DOMAIN a \cap DOMAIN b :
                    /\ z \in DOMAIN box /\ box[z] = a[z]
                    /\ \E zb \in DOMAIN box : zb # z /\ box[zb] = b[z]

\* The renders so far, the current one included, made the hook calls of the
\* construction pass, in its order.
SameCalls ==
  /\ same
  /\ renders >= 1 =>
       /\ Len(called) <= Len(created)
       /\ \A j \in DOMAIN called : called[j].kind = created[j]

\* C10: when every render makes the same hook calls in the same order, the
\* j-th call of a render uses slot j (counted from 0: slot j - 1) and gets what
\* that slot holds, the construction pass makes one slot per call, and no
\* later render changes the number of slots.
C10_SlotIndexStable ==
  SameCalls =>
    /\ \A j \in DOMAIN called :
         /\ called[j].index = j - 1
         /\ phase = "rendering" /\ j = Len(called) =>
              called[j].value = state[j]
    /\ renders = 0 => Len(state) = Len(called)
    /\ renders >= 1 => Len(state) = Len(created)
    /\ phase # "failed"

\* The third render of a component with two hooks is at its second call.
C10_Witness ==
  /\ SameCalls
  /\ renders = 2 /\ phase = "rendering"
  /\ Len(created) = 2 /\ Len(called) = 2
  /\ called[2].index = 1
  /\ Len(state) = 2

\* C11: in a later render, a call of useStateFast or useDynamic whose index is
\* beyond the slots made by the construction pass raises an error (it neither
\* returns an undefined slot nor makes a new slot without an error).
C11_MismatchDetected ==
  renders >= 1 =>
    \A j \in DOMAIN called :
      (called[j].kind # "useState" /\ called[j].index >= Len(created))
        => called[j].threw

\* C12: hide() on a running renderer stops the timer, clears the backend's
\* output and marks the renderer not visible; a show() that follows it marks
\* the renderer visible and starts the timer; while the renderer is hidden no
\* tick and no rerender() runs a pass or changes the backend's output.
C12_HideShowGateRendering ==
  [][ /\ (ev'.op = "hide" /\ timer) =>
           (~ ev'.threw /\ ~ timer' /\ screen' = EmptyBatch /\ ~ isVisible')
      /\ (ev.op = "hide" /\ ~ ev.threw /\ ev'.op = "show") =>
           (~ ev'.threw /\ isVisible' /\ timer')
      /\ (~ isVisible /\ ev'.op \in PassOps) =>
           /\ ev'.passes = 0 /\ ~ ev'.cleared /\ ~ ev'.wrote /\ ev'.drawn = {}
           /\ screen' = screen ]_vars

\* show() has made a renderer visible and running again whose output hide()
\* had cleared: the root's batch is still cached, the screen is empty.
C12_Witness ==
  /\ ev.op = "show" /\ ~ ev.threw
  /\ isVisible /\ timer
  /\ construct = [size |-> 1, variant |-> "plain"]
  /\ 1 \in DOMAIN cachedRenders
  /\ screen = EmptyBatch

\* C13: start() while the timer is set and stop() while it is not each raise
\* an error and leave the timer, the dirty flag, the visibility flag and the
\* cache as they were; there is never more than one live interval.
C13_DuplicateStartStopRejected ==
  [][ /\ (ev'.op = "start" /\ timer) =>
           /\ ev'.threw
           /\ UNCHANGED <<timer, intervals, needsRerender, isVisible, cachedRenders>>
      /\ (ev'.op = "stop" /\ ~ timer) =>
           /\ ev'.threw
           /\ UNCHANGED <<timer, intervals, needsRerender, isVisible, cachedRenders>>
      /\ intervals' <= 1 ]_vars

\* start() was refused on a running renderer that is dirty and has a cache.
C13_Witness ==
  /\ ev.op = "start" /\ ev.threw
  /\ timer /\ intervals = 1
  /\ needsRerender
  /\ cachedRenders # EmptyBatch

\* C14: a pass that reaches a visible source node whose extension is none of
\* png, jpg, jpeg, gif, svg, or a visible node of a type renderNodeImpl has no
\* case for, raises an error; no draw primitive is called for that node and
\* the node has no cache entry afterwards.
C14_UnsupportedNodeIsAnError ==
  ev.op \in PassOps =>
    \A call \in ev.calls :
      ( /\ ~ call.served
        /\ Visible(construct, call.node)
        /\ \/ Type(construct, call.node) = "other"
           \/ /\ Type(construct, call.node) = "source"
              /\ Extension(Src(construct, call.node))
                   \notin {"png", "jpg", "jpeg", "gif", "svg"} )
      => /\ ev.threw
         /\ call.node \notin ev.drawn
         /\ call.node \notin DOMAIN cachedRenders

\* A pass has reached the source node 'notes.txt' after it drew the node's
\* sibling: it raised the error, and the sibling's entry is all the cache holds.
C14_Witness ==
  /\ ev.op \in PassOps /\ ev.threw
  /\ construct = [size |-> NumNodes, variant |-> "badext"]
  /\ \E call \in ev.calls :
       /\ Type(construct, call.node) = "source" /\ ~ call.served
       /\ call.node \notin DOMAIN cachedRenders
  /\ ev.drawn # {}

\* C15: a reroot(root) that returns has made root the root component's
\* construct function, and leaves the cache empty and the dirty flag set,
\* whatever the cache held.
C15_RerootInvalidatesAll ==
  [][ (ev'.op = "reroot" /\ ~ ev'.threw) =>
        /\ construct' = ev'.root
        /\ cachedRenders' = EmptyBatch
        /\ needsRerender' ]_vars

\* reroot on a clean renderer whose last pass is still on the screen (its
\* cache held the root's entry): another tree, empty cache, dirty.
C15_Witness ==
  /\ ev.op = "reroot" /\ ~ ev.threw /\ ev.marks = 0
  /\ screen # EmptyBatch
  /\ construct = [size |-> NumNodes, variant |-> "plain"]
  /\ cachedRenders = EmptyBatch
  /\ needsRerender

\* C16 (as amended): dispose(), whether or not a timer was set, leaves no
\* timer and no live interval, the root component destroyed exactly once and
\* its reference released; a tick comes only from a live interval, and only
\* start() and show() make one: no tick runs after dispose() unless the
\* scheduler is started again.
C16_DisposeStopsScheduler ==
  [][ /\ ev'.op = "dispose" =>
           (~ timer' /\ intervals' = 0 /\ ~ rootComponent' /\ destroyed' = 1)
      /\ ev'.op = "dispose" => (ev'.threw => ~ rootComponent)
      /\ destroyed' <= 1
      /\ intervals' > intervals => ev'.op \in {"start", "show"}
      /\ (ev'.op = "tick" /\ ev'.passes > 0) => (timer /\ intervals >= 1) ]_vars

\* dispose() on a visible, dirty renderer that has rendered: nothing will
\* tick, although the next tick would have run a pass.
C16_Witness ==
  /\ ev.op = "dispose" /\ ~ ev.threw
  /\ ~ timer /\ intervals = 0
  /\ ~ rootComponent /\ destroyed = 1
  /\ isVisible /\ needsRerender
  /\ screen # EmptyBatch

\* C16 (as written): once dispose() has released the root component, no tick
\* performs a render pass.
C16_NoPassAfterDispose ==
  (ev.op = "tick" /\ ~ rootComponent) => ev.passes = 0

\* C17: a write through the proxy useState returned calls VComponent.update
\* for the component that called useState for that slot, and for no other
\* component, whichever component is rendering at the time of the write.
C17_WriteUpdatesOwner ==
  hev.op = "write" => hev.updated = {"self"}

\* A write that changed the slot's value while another component was rendering.
C17_Witness ==
  /\ hev.op = "write" /\ current = "other"
  /\ hev.updated = {"self"}
  /\ hev.before # Obj(hev.arg)
  /\ state[hev.index + 1] = Obj(hev.arg)

\* C18: the setter useStateFast returned calls VComponent.update for its
\* component exactly when the value given is not the value the slot holds,
\* and then the slot holds the value given; when it is the value the slot
\* holds, the call changes neither the slots nor anything else.
C18_SetterUpdatesIffChanged ==
  [][ (hev'.op = "set" /\ hev' # hev) =>
        IF Slot(Comp, hev'.index) # Raw(hev'.arg)
        THEN /\ hev'.updated = {"self"}
             /\ state'[hev'.index + 1] = Raw(hev'.arg)
        ELSE /\ hev'.updated = {}
             /\ UNCHANGED <<state, nextStateIndex, isBeingCreated, phase, renders>> ]_vars

\* The setter was given the value its slot holds: nothing was updated.
C18_Witness ==
  /\ hev.op = "set"
  /\ hev.index < Len(state)
  /\ hev.before = Raw(hev.arg)
  /\ state[hev.index + 1] = Raw(hev.arg)
  /\ hev.updated = {}

\* C19: no call of useDynamic calls VComponent.update, in the construction
\* pass or in a later render, whether or not it changes the slot.
C19_UseDynamicNeverUpdates ==
  \A j \in DOMAIN called :
    called[j].kind = "useDynamic" => called[j].updated = {}

\* A later render has called useDynamic, at the slot it made in the
\* construction pass, with another value than the slot held.
C19_Witness ==
  /\ renders >= 1 /\ phase = "rendering"
  /\ \E j \in DOMAIN called :
       /\ j <= Len(created) /\ created[j] = "useDynamic"
       /\ called[j].kind = "useDynamic" /\ ~ called[j].threw
       /\ called[j].changed
       /\ called[j].updated = {}

\* C20: when every render makes the same hook calls, a getter useDynamic
\* returned, called between renders, returns the value the most recent render
\* gave to that useDynamic call.
C20_GetterReturnsLatest ==
  ( /\ hev.op = "get" /\ phase = "idle" /\ renders >= 1 /\ same
    /\ hev.index < Len(called)
    /\ called[hev.index + 1].kind = "useDynamic" )
  => hev.result = called[hev.index + 1].given

\* The getter of the construction pass is called after a second render that
\* gave useDynamic another value: it returns that value.
C20_Witness ==
  /\ hev.op = "get" /\ phase = "idle" /\ renders = 2 /\ same
  /\ created = <<"useDynamic">>
  /\ called[1].kind = "useDynamic" /\ called[1].changed
  /\ hev.result = called[1].given

\* C21: after the setter useStateFast returned was called with v, the
\* useStateFast call of the next render at that slot returns v, whatever
\* initialState it is given; a call of the setter (a step that starts no
\* render and makes no hook call) does not change the values the hook calls
\* of the current render have returned.
C21_NextRenderGetsSetValue ==
  [][ /\ ( /\ hev.op = "set" /\ phase = "rendering" /\ ~ isBeingCreated
           /\ nextStateIndex = hev.index
           /\ Len(called') = Len(called) + 1
           /\ called'[Len(called')].kind = "useStateFast" )
         => /\ called'[Len(called')].index = hev.index
            /\ called'[Len(called')].value = Raw(hev.arg)
      /\ (hev'.op = "set" /\ phase' = phase /\ nextStateIndex' = nextStateIndex)
           => called' = called ]_vars

\* The second render's useStateFast call has returned the value the setter
\* was given after the first render, a value the slot did not hold before.
C21_Witness ==
  /\ hev.op = "set" /\ hev.before # Raw(hev.arg) /\ hev.index = 0
  /\ phase = "rendering" /\ renders = 1
  /\ created = <<"useStateFast">>
  /\ Len(called) = 1 /\ called[1].kind = "useStateFast"
  /\ called[1].value = Raw(hev.arg)

C27_PromptsIsReadOnly ==
  [][ (ev'.op = "assign" /\ pev'.path = <<"prompts">>) =>
        /\ pev'.threw
        /\ props' = props
        /\ pev'.reroots = 0
        /\ UNCHANGED <<construct, cachedRenders, needsRerender>> ]_vars

\* p.prompts was assigned another value than it holds, on a clean renderer
\* with a cache: refused.
C27_Witness ==
  /\ ev.op = "assign" /\ pev.path = <<"prompts">> /\ pev.threw
  /\ props.prompts # pev.value
  /\ cachedRenders # EmptyBatch
  /\ ~ needsRerender

\* C23: a call of box, hbox, vbox or zbox returns a box node holding the
\* children left after fragments are flattened and null and undefined are
\* dropped, and warns exactly when more than one child is left and no
\* direction was declared (hbox, vbox and zbox declare one).
C23_WarnsOnManyChildrenWithoutDirection ==
  vnode # NoNode =>
    LET declared == jsxIn.tag # "box" \/ jsxIn.direction # NoDirection
        kids == CollapseAll(jsxIn.children)
    IN  /\ vnode.type = "box"
        /\ vnode.children = kids
        /\ \A i \in 1 .. Len(kids) : kids[i] \in {"a", "b"}
        /\ console = IF Len(kids) > 1 /\ ~ declared THEN 1 ELSE 0

\* box without direction was called with one argument, a fragment that
\* holds two nodes: the warning was made and the box holds both.
C23_Witness ==
  /\ jsxIn.tag = "box" /\ jsxIn.direction = NoDirection
  /\ Len(jsxIn.children) = 1
  /\ vnode.type = "box" /\ vnode.children = <<"a", "b">>
  /\ console = 1

\* C24: renderDivChildren called with a gap and a direction other than
\* horizontal and vertical (overlap, or none) raises an error and returns no
\* layout.
C24_GapWithoutMajorAxisIsAnError ==
  ( /\ vrender # NoRender
    /\ divIn.direction \notin {"horizontal", "vertical"}
    /\ divIn.gap # NoGap )
  => /\ vrender.threw
     /\ ~ vrender.done
     /\ vrender.at = <<>> /\ vrender.width = 0 /\ vrender.height = 0

\* An overlap box of two children with gap 1 was rendered: error.
C24_Witness ==
  /\ divIn.direction = "overlap" /\ divIn.gap = 1 /\ Len(divIn.children) = 2
  /\ vrender.threw

\* The sum of f[1] .. f[n]
RECURSIVE SumTo(_, _)
SumTo(f, n) == IF n = 0 THEN 0 ELSE f[n] + SumTo(f, n - 1)

\* C25: in a horizontal (vertical) box, with the gap's extent gap * em / 2
\* (gap * em) or 0 without a gap, and an invisible child counted with size 0:
\* child i that is drawn is placed at the sum of the sizes of the children
\* before it plus i - 1 gaps, so the first at 0 and no two drawn children
\* overlap; the box's major size is the sum of all sizes plus one gap between
\* each two children, its minor size the largest minor size (0 when empty).
C25_MajorAxisAdvance ==
  ( vrender # NoRender /\ divIn.direction \in {"horizontal", "vertical"} ) =>
    LET horizontal == divIn.direction = "horizontal"
        n == Len(divIn.children)
        drawn(i) == divIn.children[i].visible
        major == [i \in 1 .. n |->
                    IF ~ drawn(i) THEN 0
                    ELSE IF horizontal THEN divIn.children[i].width
                    ELSE divIn.children[i].height]
        minor == [i \in 1 .. n |->
                    IF ~ drawn(i) THEN 0
                    ELSE IF horizontal THEN divIn.children[i].height
                    ELSE divIn.children[i].width]
        extent == IF divIn.gap = NoGap THEN 0
                  ELSE IF horizontal THEN divIn.gap * (EM \div 2) ELSE divIn.gap * EM
        majorSize == IF horizontal THEN vrender.width ELSE vrender.height
        minorSize == IF horizontal THEN vrender.height ELSE vrender.width
    IN  /\ ~ vrender.threw /\ vrender.done
        /\ Len(vrender.at) = n
        /\ \A i \in 1 .. n :
             vrender.at[i] = IF drawn(i) THEN SumTo(major, i - 1) + (i - 1) * extent
                             ELSE NoPos
        /\ \A i, j \in 1 .. n :
             (i < j /\ drawn(i) /\ drawn(j)) => vrender.at[i] + major[i] <= vrender.at[j]
        /\ majorSize = SumTo(major, n) + (IF n = 0 THEN 0 ELSE (n - 1) * extent)
        /\ \A i \in 1 .. n : minorSize >= minor[i]
        /\ IF n = 0 THEN minorSize = 0 ELSE \E i \in 1 .. n : minorSize = minor[i]

\* A horizontal box of three drawn children of widths 1, 2, 1 and heights
\* 1, 2, 1 with gap 1 was laid out: at 0, 13 and 27, 28 wide and 2 high.
C25_Witness ==
  /\ divIn.direction = "horizontal" /\ divIn.gap = 1
  /\ Len(divIn.children) = 3
  /\ \A i \in 1 .. 3 : divIn.children[i].visible
  /\ vrender.done
  /\ vrender.at = <<0, 13, 27>>
  /\ vrender.width = 28 /\ vrender.height = 2

\* C26: show() while the timer is set and hide() while it is not each raise
\* an error and leave the visibility flag, the timer, the dirty flag, the
\* cache and the backend's output as they were.
C26_FailedShowHideChangeNothing ==
  [][ ( \/ ev'.op = "show" /\ timer
        \/ ev'.op = "hide" /\ ~ timer )
      => /\ ev'.threw
         /\ UNCHANGED <<isVisible, timer, intervals, needsRerender, cachedRenders,
                        screen>> ]_vars

\* C28: after a pass during which setNeedsRerender(n) was called (the root,
\* an ancestor of every node, had started to render and had not stored its
\* batch), neither n nor any ancestor of n has a cache entry.
C28_MarkDuringPassLeavesNoEntry ==
  (ev.op \in PassOps /\ ev.fired /\ ~ ev.threw) =>
    PathToRoot(ev.marked) \cap DOMAIN cachedRenders = {}

\* C29: after hide() and then show(), with nothing called between them, a
\* tick runs a pass, unless another operation on the renderer comes first.
C29_ShowAfterHideRedraws ==
  (ev.op = "show" /\ ev.afterHide /\ ~ ev.threw)
    ~> ( \/ ev.op = "tick" /\ ev.passes = 1
         \/ ev.op \notin {"show", "tick"}
         \/ ev.op = "show" /\ ~ ev.afterHide )

Subtree(c, n) == {m \in Nodes(c) : n \in PathToRoot(m)}

\* C31: a pass that reaches a node with visible === false gives it an empty
\* batch: no draw primitive is called and no bounds resolver is evaluated for
\* the node or a node below it, no node below it is reached, and no batch (the
\* parent's, any cached one, the one on the screen) holds a primitive of it.
C31_InvisibleNodeIsEmpty ==
  ev.op \in PassOps =>
    \A call \in ev.calls :
      ~ Visible(construct, call.node) =>
        LET sub == Subtree(construct, call.node)
        IN  /\ sub \cap ev.drawn = {}
            /\ sub \cap ev.resolved = {}
            /\ \A other \in ev.calls : other.node \in sub => other.node = call.node
            /\ call.node \in DOMAIN cachedRenders =>
                 cachedRenders[call.node].batch = EmptyBatch
            /\ \A n \in DOMAIN cachedRenders :
                 \A primitive \in Range(cachedRenders[n].batch) : primitive.node \notin sub
            /\ \A primitive \in Range(screen) : primitive.node \notin sub

\* A pass over the tree whose node 2, a box with children, is not visible has
\* computed that node's batch and drawn its sibling.
C31_Witness ==
  /\ ev.op \in PassOps /\ ev.wrote
  /\ construct = [size |-> NumNodes, variant |-> "hidden"]
  /\ Children(construct, 2) # <<>>
  /\ \E call \in ev.calls : call.node = 2 /\ ~ call.served
  /\ 2 \in DOMAIN cachedRenders /\ cachedRenders[2].batch = EmptyBatch
  /\ 3 \in ev.drawn

\* C32: once a path's asset has been loaded by the loader getAsync started,
\* every caller that handed a callback to the function getAsync gave it for
\* that path has had the callback called; and the loader is started at most
\* once for each path.
C32_EveryCallerNotified ==
  /\ \A path \in AssetPaths :
       ( /\ assets[path] = "image"
         /\ \E caller \in notified : handles[caller].path = path )
       => \A caller \in Callers :
            (handles[caller].path = path /\ handles[caller].registered)
              => caller \in notified
  /\ \A path \in AssetPaths : started[path] <= 1

====
